---- MODULE Spec2Model ----
(***************************************************************************)
(* Model of relay/channel/openai/main.go: the streaming relay              *)
(* (StreamHandler: a producer goroutine that scans, filters, parses and    *)
(* hands off frames, and the c.Stream consumer loop that writes them to    *)
(* the client) and the full-body relay (Handler).                          *)
(*                                                                         *)
(* Text is modelled as a sequence of one-character strings.  A complete    *)
(* JSON document is one element of such a sequence: a token whose decoded  *)
(* value is given by JsonTable (so json.Unmarshal is a table lookup and    *)
(* json.Marshal its inverse).                                              *)
(***************************************************************************)
EXTENDS Integers, Sequences, FiniteSets, TLC

\* Largest number of upstream frames the scanner yields before end of input.
MaxFrames == 3

------------------------------------------------------------------------------
\* Literals of the source.

DataPrefix == <<"d", "a", "t", "a", ":", " ">>
DonePrefix == <<"[", "D", "O", "N", "E", "]">>
doneSignal == DataPrefix \o DonePrefix
NewLines == <<"\n", "\n">>
Whitespace == {" ", "\t", "\r", "\n"}

RelayModeChatCompletions == "ChatCompletions"
RelayModeCompletions == "Completions"
RelayModeEmbeddings == "Embeddings"
RelayModes == {RelayModeChatCompletions, RelayModeCompletions, RelayModeEmbeddings}

\* The operator-supplied fixed content: empty, or the text "Ad".
FixedContents == {<<>>, <<"A", "d">>}

------------------------------------------------------------------------------
\* JSON documents.  null is the JSON null of an absent finish_reason.

null == "null"

Choice(content, text, finish) ==
    [delta |-> [content |-> content, role |-> <<>>],
     text |-> text,
     finish_reason |-> finish]

\* The object GenerateFixedContentMessage marshals.
FixedContentObject(fc) ==
    [object |-> "chat.completion",
     choices |-> << Choice(NewLines \o fc, <<>>, "stop") >>]

Chunk(choices) == [object |-> "chunk", choices |-> choices]

JsonTable ==
    [t \in {"Ja", "Jb", "Jl", "Jd", "Ta", "Tb", "S", "Sad"} |->
        CASE t = "Ja" -> Chunk(<< Choice(<<"a">>, <<>>, null) >>)
          [] t = "Jb" -> Chunk(<< Choice(<<"b">>, <<>>, "stop") >>)
          [] t = "Jl" -> Chunk(<< Choice(<<"c">>, <<>>, "length") >>)
          [] t = "Jd" -> Chunk(<< Choice(<<"d">>, <<>>, "stop"),
                                  Choice(<<"e">>, <<>>, "stop") >>)
          [] t = "Ta" -> Chunk(<< Choice(<<>>, <<"a">>, null) >>)
          [] t = "Tb" -> Chunk(<< Choice(<<>>, <<"b">>, "stop") >>)
          [] t = "S" -> FixedContentObject(<<>>)
          [] t = "Sad" -> FixedContentObject(<<"A", "d">>)]

JsonTokens == DOMAIN JsonTable

\* json.Marshal: the document whose value is obj.
Marshal(obj) == CHOOSE t \in JsonTokens : JsonTable[t] = obj

RECURSIVE TrimLeft(_)
TrimLeft(s) ==
    IF s # <<>> /\ Head(s) \in Whitespace THEN TrimLeft(Tail(s)) ELSE s

RECURSIVE TrimRight(_)
TrimRight(s) ==
    IF s # <<>> /\ s[Len(s)] \in Whitespace
    THEN TrimRight(SubSeq(s, 1, Len(s) - 1))
    ELSE s

\* json.Unmarshal accepts one document surrounded by optional whitespace.
ValidJson(jsonData) ==
    LET core == TrimRight(TrimLeft(jsonData))
    IN  Len(core) = 1 /\ core[1] \in JsonTokens

JsonValue(jsonData) == JsonTable[TrimRight(TrimLeft(jsonData))[1]]

\* Decoding into ChatCompletionsStreamResponse: Delta.Content and a nullable
\* FinishReason per choice.
UnmarshalChat(jsonData) ==
    LET cs == JsonValue(jsonData).choices
    IN  [i \in 1..Len(cs) |->
            [Content |-> cs[i].delta.content,
             FinishReason |-> cs[i].finish_reason]]

\* Decoding into CompletionsStreamResponse: Text and a plain string
\* FinishReason per choice (JSON null leaves the zero value "").
UnmarshalCompletions(jsonData) ==
    LET cs == JsonValue(jsonData).choices
    IN  [i \in 1..Len(cs) |->
            [Text |-> cs[i].text,
             FinishReason |-> IF cs[i].finish_reason = null
                              THEN ""
                              ELSE cs[i].finish_reason]]

------------------------------------------------------------------------------
\* The frames upstream may send.

UpstreamFrames ==
    { <<>>,
      <<"e", "v", "e", "n", "t", ":">>,
      DonePrefix,
      doneSignal,
      doneSignal \o <<"\r">>,
      DataPrefix \o <<"x">>,
      DataPrefix \o <<"Ja">>,
      DataPrefix \o <<"Ja", "\r">>,
      DataPrefix \o <<"Jb">>,
      DataPrefix \o <<"Jl">>,
      DataPrefix \o <<"Jd">>,
      DataPrefix \o <<"Ta">>,
      DataPrefix \o <<"Tb">> }

------------------------------------------------------------------------------
\* Pure helpers of StreamHandler.

GenerateFixedContentMessage(fc) == DataPrefix \o << Marshal(FixedContentObject(fc)) >>

\* data[:n]
Slice(s, n) == SubSeq(s, 1, n)

HasPrefix(s, p) == Len(s) >= Len(p) /\ Slice(s, Len(p)) = p

TrimSuffixCR(s) ==
    IF s # <<>> /\ s[Len(s)] = "\r" THEN SubSeq(s, 1, Len(s) - 1) ELSE s

Ignored_ShortOnly(d) == Len(d) < 6

\* Lines 70-75: the frame is ignored.
Ignored(d) ==
    \/ Len(d) < 6
    \/ Slice(d, 6) # DataPrefix /\ Slice(d, 6) # DonePrefix

Rendered_KeepCR(d) == IF HasPrefix(d, doneSignal) THEN Slice(d, 12) ELSE d

\* Lines 134-138: what the consumer renders for a frame it received.
Rendered(d) ==
    TrimSuffixCR(IF HasPrefix(d, doneSignal) THEN Slice(d, 12) ELSE d)

\* Lines 100-105 / 113-118: the text the choices add to responseText.
RECURSIVE ChatText(_)
ChatText(cs) ==
    IF cs = <<>> THEN <<>> ELSE Head(cs).Content \o ChatText(Tail(cs))

RECURSIVE CompletionsText(_)
CompletionsText(cs) ==
    IF cs = <<>> THEN <<>> ELSE Head(cs).Text \o CompletionsText(Tail(cs))

ChatStop_AnyFinish(cs) ==
    \E i \in 1..Len(cs) : cs[i].FinishReason # null

ChatStop(cs) ==
    \E i \in 1..Len(cs) : cs[i].FinishReason # null /\ cs[i].FinishReason = "stop"

CompletionsStop_WrongReason(cs) ==
    \E i \in 1..Len(cs) : cs[i].FinishReason = "length"

CompletionsStop(cs) ==
    \E i \in 1..Len(cs) : cs[i].FinishReason = "stop"

------------------------------------------------------------------------------
\* Pure helpers of Handler.

StatusInternalServerError == 500

\* The HTTP status codes upstream answers with.
StatusCodes == {200, 429}

\* The prompt-token counts the caller supplies.
PromptTokenCounts == {0, 4}

\* A JSON string literal: json.Marshal of a Go string.
RECURSIVE Escape(_)
Escape(s) ==
    IF s = <<>> THEN <<>>
    ELSE (CASE Head(s) = "\n" -> <<"\\", "n">>
            [] Head(s) = "\"" -> <<"\\", "\"">>
            [] Head(s) = "\\" -> <<"\\", "\\">>
            [] OTHER -> <<Head(s)>>) \o Escape(Tail(s))

EncodeString(s) == <<"\"">> \o Escape(s) \o <<"\"">>

RECURSIVE Unescape(_)
Unescape(s) ==
    IF s = <<>> THEN <<>>
    ELSE IF Head(s) = "\\" /\ Len(s) >= 2
         THEN <<(IF s[2] = "n" THEN "\n" ELSE s[2])>> \o Unescape(SubSeq(s, 3, Len(s)))
         ELSE <<Head(s)>> \o Unescape(Tail(s))

\* Message.StringContent: the string a raw JSON string literal stands for.
StringContent(message) ==
    LET raw == message.Content
    IN  IF Len(raw) >= 2 /\ raw[1] = "\"" /\ raw[Len(raw)] = "\""
        THEN Unescape(SubSeq(raw, 2, Len(raw) - 1))
        ELSE <<>>

\* The token-counting collaborator, consumed as an opaque function of the
\* text (two characters to a token, rounded up).
CountTokenText(text, model) == (Len(text) + 1) \div 2

\* A nil *ErrorWithStatusCode.
NoError == [Error |-> [Type |-> "", Code |-> ""], StatusCode |-> 0]

ErrorWrapper(code, statusCode) ==
    [Error |-> [Type |-> "one_api_error", Code |-> code], StatusCode |-> statusCode]

Usage(p, c, t) == [PromptTokens |-> p, CompletionTokens |-> c, TotalTokens |-> t]

\* JSON objects of an upstream body, with the field names of the wire.
JsonMessage(text) == [message |-> [content |-> EncodeString(text)]]

JsonUsage(p, c, t) == [prompt_tokens |-> p, completion_tokens |-> c, total_tokens |-> t]

JsonBody(choices, usage, errorType) ==
    [choices |-> choices, usage |-> usage, error |-> [type |-> errorType]]

\* The upstream bodies: each token is one JSON document.
BodyTable ==
    [t \in {"B0", "B1", "B2", "B3", "B4", "Be"} |->
        CASE t = "B0" -> JsonBody(<<>>, JsonUsage(0, 0, 0), "")
          [] t = "B1" -> JsonBody(<< JsonMessage(<<"a">>) >>, JsonUsage(0, 0, 0), "")
          [] t = "B2" -> JsonBody(
                            << JsonMessage(<<"a", "b", "c">>), JsonMessage(<<"\"", "\n">>) >>,
                            JsonUsage(0, 0, 0), "")
          [] t = "B3" -> JsonBody(
                            << JsonMessage(<<"a">>), JsonMessage(<<"b">>) >>,
                            JsonUsage(1, 2, 3), "")
          [] t = "B4" -> JsonBody(<< JsonMessage(<<"a", "\\", "b">>) >>,
                                  JsonUsage(7, 1, 0), "")
          [] t = "Be" -> JsonBody(<< JsonMessage(<<"a">>) >>,
                                  JsonUsage(0, 0, 0), "server_error")]

BodyTokens == DOMAIN BodyTable

\* What resp.Body holds: a JSON document, or text that is none.
Bodies == {<<t>> : t \in BodyTokens} \cup {<<"x">>}

\* The upstream response headers, each key with its list of values.
Headers == [ContentType |-> <<"json">>, SetCookie |-> <<"k1", "k2">>]

\* json.Unmarshal of the body accepts one document surrounded by whitespace.
ValidBody(responseBody) ==
    LET core == TrimRight(TrimLeft(responseBody))
    IN  Len(core) = 1 /\ core[1] \in BodyTokens

\* Line 163: decoding into SlimTextResponse.
UnmarshalBody(responseBody) ==
    LET doc == BodyTable[TrimRight(TrimLeft(responseBody))[1]]
    IN  [Choices |-> [i \in 1..Len(doc.choices) |->
                        [Message |-> [Content |-> doc.choices[i].message.content]]],
         Usage |-> Usage(doc.usage.prompt_tokens, doc.usage.completion_tokens,
                         doc.usage.total_tokens),
         Error |-> [Type |-> doc.error.type, Code |-> ""]]

\* Line 200: json.Marshal of the SlimTextResponse, the body sent to the client.
MarshalBody(textResponse) ==
    JsonBody([i \in 1..Len(textResponse.Choices) |->
                [message |-> [content |-> textResponse.Choices[i].Message.Content]]],
             JsonUsage(textResponse.Usage.PromptTokens,
                       textResponse.Usage.CompletionTokens,
                       textResponse.Usage.TotalTokens),
             textResponse.Error.Type)

LastChoiceText_First(choices) ==
    IF choices = <<>> THEN <<>> ELSE StringContent(choices[1].Message)

\* Lines 173-175: the content of the last choice, "" without choices.
LastChoiceText(choices) ==
    IF choices = <<>> THEN <<>> ELSE StringContent(choices[Len(choices)].Message)

InjectChoices_LastOnly(choices, fc) ==
    IF fc # <<>>
    THEN [i \in 1..Len(choices) |->
            IF i = Len(choices)
            THEN [Message |-> [Content |->
                    EncodeString(StringContent(choices[i].Message) \o NewLines \o fc)]]
            ELSE choices[i]]
    ELSE choices

\* Lines 177-187: every choice's content followed by "\n\n" + fixedContent.
InjectChoices(choices, fc) ==
    IF fc # <<>>
    THEN [i \in 1..Len(choices) |->
            [Message |-> [Content |->
                EncodeString(StringContent(choices[i].Message) \o NewLines \o fc)]]]
    ELSE choices

FilledUsage_Always(usage, promptTokens, text, model) ==
    Usage(promptTokens, CountTokenText(text, model),
          promptTokens + CountTokenText(text, model))

\* Lines 190-197: usage is computed locally when upstream reports no total.
FilledUsage(usage, promptTokens, text, model) ==
    IF usage.TotalTokens = 0
    THEN Usage(promptTokens, CountTokenText(text, model),
               promptTokens + CountTokenText(text, model))
    ELSE usage

\* Lines 207-209: the first value of every upstream header.
FirstValues(header) == [k \in DOMAIN header |-> header[k][1]]

------------------------------------------------------------------------------
VARIABLES
    entry,          \* which of the two entry points this request runs
    fixedContent,   \* argument of StreamHandler and of Handler
    relayMode,      \* argument of StreamHandler
    upstream,       \* the frames scanner.Scan has yielded so far
    pc,             \* position of the producer goroutine
    data,           \* the producer's current frame
    needInjectFixedMessageBeforeNextSend,
    responseText,   \* the accumulator (StreamHandler), the last text (Handler)
    before,         \* flag, accumulator and handoff count when data was scanned
    handed,         \* frames received by the consumer from dataChan
    written,        \* frames rendered to the client
    mpc,            \* position of StreamHandler's own goroutine
    clientGone,     \* the c.Stream loop ended because the client went away
    closeCount,     \* calls of resp.Body.Close
    retErr,         \* returned *ErrorWithStatusCode
    retText,        \* returned text
    hpc,            \* position of Handler
    statusCode,     \* resp.StatusCode
    promptTokens,   \* argument of Handler
    body,           \* what resp.Body holds
    responseBody,   \* what io.ReadAll returned
    textResponse,   \* the decoded SlimTextResponse
    retUsage,       \* returned *Usage: <<>> for nil, else <<usage>>
    client          \* status, headers and body written to c.Writer

vars == <<entry, fixedContent, relayMode, upstream, pc, data,
          needInjectFixedMessageBeforeNextSend, responseText, before,
          handed, written, mpc, clientGone, closeCount, retErr, retText,
          hpc, statusCode, promptTokens, body, responseBody, textResponse,
          retUsage, client>>

handlerVars == <<hpc, statusCode, promptTokens, body, responseBody,
                 textResponse, retUsage, client>>
args == <<entry, fixedContent, relayMode, handlerVars>>
producerVars == <<upstream, pc, data, needInjectFixedMessageBeforeNextSend,
                  responseText, before>>
consumerVars == <<handed, written, mpc, clientGone, closeCount, retErr, retText>>
streamVars == <<relayMode, upstream, pc, data,
                needInjectFixedMessageBeforeNextSend, before, handed, written,
                mpc, clientGone>>

Snapshot ==
    [flag |-> needInjectFixedMessageBeforeNextSend,
     text |-> responseText,
     handed |-> Len(handed)]

NoClient == [status |-> 0, headers |-> <<>>, body |-> <<>>]

Init ==
    /\ entry \in {"StreamHandler", "Handler"}
    /\ fixedContent \in FixedContents
    /\ upstream = <<>>
    /\ data = <<>>
    /\ needInjectFixedMessageBeforeNextSend = FALSE
    /\ responseText = <<>>
    /\ before = [flag |-> FALSE, text |-> <<>>, handed |-> 0]
    /\ handed = <<>>
    /\ written = <<>>
    /\ clientGone = FALSE
    /\ closeCount = 0
    /\ retErr = NoError
    /\ retText = <<>>
    /\ responseBody = <<>>
    /\ textResponse = UnmarshalBody(<<"B0">>)
    /\ retUsage = <<>>
    /\ client = NoClient
    /\ IF entry = "StreamHandler"
       THEN /\ relayMode \in RelayModes
            /\ pc = "scan"
            /\ mpc = "stream"
            /\ hpc = "none"
            /\ statusCode = 200
            /\ promptTokens = 0
            /\ body = <<>>
       ELSE /\ relayMode = RelayModeChatCompletions
            /\ pc = "none"
            /\ mpc = "none"
            /\ hpc = "read"
            /\ statusCode \in StatusCodes
            /\ promptTokens \in PromptTokenCounts
            /\ body \in Bodies

------------------------------------------------------------------------------
\* The producer goroutine (lines 65-129).

\* Line 67-69: scanner.Scan yields the next frame.
ScanFrame ==
    /\ pc = "scan"
    /\ Len(upstream) < MaxFrames
    /\ \E f \in UpstreamFrames :
        /\ data' = f
        /\ upstream' = Append(upstream, f)
    /\ before' = Snapshot
    /\ pc' = "filter"
    /\ UNCHANGED <<args, needInjectFixedMessageBeforeNextSend, responseText,
                   consumerVars>>

\* Line 67: scanner.Scan reports the end of input; the loop ends.
ScanEOF ==
    /\ pc = "scan"
    /\ pc' = "sendDone"
    /\ UNCHANGED <<args, upstream, data, needInjectFixedMessageBeforeNextSend,
                   responseText, before, consumerVars>>

\* Lines 70-75: blank lines and frames of another format are skipped.
FilterFrame ==
    /\ pc = "filter"
    /\ pc' = IF Ignored(data) THEN "scan" ELSE "inject"
    /\ UNCHANGED <<args, upstream, data, needInjectFixedMessageBeforeNextSend,
                   responseText, before, consumerVars>>

\* Lines 77-78: a pending injection with non-empty fixed content goes to the
\* handoff of line 80; otherwise nothing happens (the flag is left as it is).
MustInject_AnyContent(flag, fc) == flag

MustInject(flag, fc) == flag /\ fc # <<>>

CheckInject ==
    /\ pc = "inject"
    /\ pc' = IF MustInject(needInjectFixedMessageBeforeNextSend, fixedContent)
             THEN "sendFixed"
             ELSE "parse"
    /\ UNCHANGED <<args, upstream, data, needInjectFixedMessageBeforeNextSend,
                   responseText, before, consumerVars>>

\* Line 81: the flag is reset after the synthetic frame was handed off.
ResetFlag ==
    /\ pc = "reset"
    /\ needInjectFixedMessageBeforeNextSend' = FALSE
    /\ pc' = "parse"
    /\ UNCHANGED <<args, upstream, data, responseText, before, consumerVars>>

ParseResult_ForwardOnError(d, m) ==
    LET jsonData == SubSeq(d, 7, Len(d))
        skip == [next |-> "scan", text |-> <<>>, stop |-> FALSE]
        pass == [next |-> "forward", text |-> <<>>, stop |-> FALSE]
    IN  IF Slice(d, 6) # DataPrefix THEN pass
        ELSE IF d = doneSignal THEN skip
        ELSE IF m = RelayModeChatCompletions THEN
            IF ~ValidJson(jsonData) THEN pass
            ELSE [next |-> "forward",
                  text |-> ChatText(UnmarshalChat(jsonData)),
                  stop |-> ChatStop(UnmarshalChat(jsonData))]
        ELSE IF m = RelayModeCompletions THEN
            IF ~ValidJson(jsonData) THEN pass
            ELSE [next |-> "forward",
                  text |-> CompletionsText(UnmarshalCompletions(jsonData)),
                  stop |-> CompletionsStop(UnmarshalCompletions(jsonData))]
        ELSE pass

\* Lines 86-120: what parsing the frame d in mode m does, as
\* [next |-> the position after it, text |-> appended text, stop |-> a choice
\* finished with "stop"].
ParseResult(d, m) ==
    LET jsonData == SubSeq(d, 7, Len(d))
        skip == [next |-> "scan", text |-> <<>>, stop |-> FALSE]
        pass == [next |-> "forward", text |-> <<>>, stop |-> FALSE]
    IN  IF Slice(d, 6) # DataPrefix THEN pass
        ELSE IF d = doneSignal THEN skip
        ELSE IF m = RelayModeChatCompletions THEN
            IF ~ValidJson(jsonData) THEN skip
            ELSE [next |-> "forward",
                  text |-> ChatText(UnmarshalChat(jsonData)),
                  stop |-> ChatStop(UnmarshalChat(jsonData))]
        ELSE IF m = RelayModeCompletions THEN
            IF ~ValidJson(jsonData) THEN skip
            ELSE [next |-> "forward",
                  text |-> CompletionsText(UnmarshalCompletions(jsonData)),
                  stop |-> CompletionsStop(UnmarshalCompletions(jsonData))]
        ELSE pass

ParseFrame ==
    /\ pc = "parse"
    /\ LET r == ParseResult(data, relayMode)
       IN  /\ pc' = r.next
           /\ responseText' = responseText \o r.text
           /\ needInjectFixedMessageBeforeNextSend' =
                (needInjectFixedMessageBeforeNextSend \/ r.stop)
    /\ UNCHANGED <<args, upstream, data, before, consumerVars>>

\* Line 121: the frame is handed off only while no injection is pending.
MayForward(flag) == ~flag

CheckForward ==
    /\ pc = "forward"
    /\ pc' = IF MayForward(needInjectFixedMessageBeforeNextSend)
             THEN "sendData"
             ELSE "scan"
    /\ UNCHANGED <<args, upstream, data, needInjectFixedMessageBeforeNextSend,
                   responseText, before, consumerVars>>

------------------------------------------------------------------------------
\* The handoffs.  dataChan and stopChan are unbuffered: a send and the
\* matching receive of the select in c.Stream's step are one joint step.

Sending == {"sendFixed", "sendData", "sendDone"}

Offered_Payload(p) ==
    CASE p = "sendFixed" -> GenerateFixedContentMessage(fixedContent)
      [] p = "sendData" -> SubSeq(data, Len(DataPrefix) + 1, Len(data))
      [] p = "sendDone" -> doneSignal

\* The value the producer offers on dataChan at position p.
Offered(p) ==
    CASE p = "sendFixed" -> GenerateFixedContentMessage(fixedContent)
      [] p = "sendData" -> data
      [] p = "sendDone" -> doneSignal

\* The producer's position after its send at position p was received.
AfterSend(p) ==
    CASE p = "sendFixed" -> "reset"
      [] p = "sendData" -> "scan"
      [] p = "sendDone" -> "sendStop"

\* Lines 80, 122, 127 with lines 133-140.
StepData ==
    /\ mpc = "stream"
    /\ pc \in Sending
    /\ handed' = Append(handed, Offered(pc))
    /\ written' = Append(written, Rendered(Offered(pc)))
    /\ pc' = AfterSend(pc)
    /\ UNCHANGED <<args, upstream, data, needInjectFixedMessageBeforeNextSend,
                   responseText, before, mpc, clientGone, closeCount, retErr,
                   retText>>

StepStop_Early ==
    /\ mpc = "stream"
    /\ pc \in {"sendDone", "sendStop"}
    /\ pc' = "done"
    /\ mpc' = "close"
    /\ UNCHANGED <<args, upstream, data, needInjectFixedMessageBeforeNextSend,
                   responseText, before, handed, written, clientGone,
                   closeCount, retErr, retText>>

\* Line 128 with lines 141-142.
StepStop ==
    /\ mpc = "stream"
    /\ pc = "sendStop"
    /\ pc' = "done"
    /\ mpc' = "close"
    /\ UNCHANGED <<args, upstream, data, needInjectFixedMessageBeforeNextSend,
                   responseText, before, handed, written, clientGone,
                   closeCount, retErr, retText>>

\* c.Stream returns between two steps when the client's connection is gone.
ClientGone ==
    /\ mpc = "stream"
    /\ clientGone' = TRUE
    /\ mpc' = "close"
    /\ UNCHANGED <<args, producerVars, handed, written, closeCount, retErr,
                   retText>>

CloseBody_KeepText ==
    /\ mpc = "close"
    /\ closeCount' = closeCount + 1
    /\ mpc' = "returned"
    /\ retText' = responseText
    /\ \E ok \in BOOLEAN :
        retErr' = IF ok
                  THEN NoError
                  ELSE ErrorWrapper("close_response_body_failed",
                                    StatusInternalServerError)
    /\ UNCHANGED <<args, producerVars, handed, written, clientGone>>

\* Line 149 reads responseText without synchronisation.  After the
\* termination signal the producer is done.  After a client disconnect the
\* producer may be appending (lines 101, 114) at that moment: the read then
\* yields the old string, the new one, or a torn one (the old bytes under
\* the new length, "?" standing for the bytes past the old string).
ReadResponseText ==
    LET added == ParseResult(data, relayMode).text
    IN  IF pc = "parse" /\ added # <<>>
        THEN {responseText,
              responseText \o added,
              responseText \o [i \in 1..Len(added) |-> "?"]}
        ELSE {responseText}

\* Lines 145-149.
CloseBody ==
    /\ mpc = "close"
    /\ closeCount' = closeCount + 1
    /\ mpc' = "returned"
    /\ \E ok \in BOOLEAN :
        IF ok
        THEN retErr' = NoError /\ retText' \in ReadResponseText
        ELSE /\ retErr' = ErrorWrapper("close_response_body_failed",
                                       StatusInternalServerError)
             /\ retText' = <<>>
    /\ UNCHANGED <<args, producerVars, handed, written, clientGone>>

------------------------------------------------------------------------------
\* Handler (lines 152-216).

Return(err, usage, text) ==
    /\ hpc' = "returned"
    /\ retErr' = err
    /\ retUsage' = usage
    /\ retText' = text

Fail(code) == Return(ErrorWrapper(code, StatusInternalServerError), <<>>, <<>>)

\* Lines 155-158.
ReadBody ==
    /\ hpc = "read"
    /\ \E ok \in BOOLEAN :
        IF ok
        THEN /\ responseBody' = body
             /\ hpc' = "close"
             /\ UNCHANGED <<retErr, retUsage, retText>>
        ELSE /\ Fail("read_response_body_failed")
             /\ UNCHANGED responseBody
    /\ UNCHANGED <<entry, fixedContent, streamVars, responseText, closeCount,
                   statusCode, promptTokens, body, textResponse, client>>

\* Lines 159-162.
CloseReadBody ==
    /\ hpc = "close"
    /\ closeCount' = closeCount + 1
    /\ \E ok \in BOOLEAN :
        IF ok
        THEN hpc' = "unmarshal" /\ UNCHANGED <<retErr, retUsage, retText>>
        ELSE Fail("close_response_body_failed")
    /\ UNCHANGED <<entry, fixedContent, streamVars, responseText, statusCode,
                   promptTokens, body, responseBody, textResponse, client>>

\* Lines 163-166.
UnmarshalResponse ==
    /\ hpc = "unmarshal"
    /\ IF ValidBody(responseBody)
       THEN /\ textResponse' = UnmarshalBody(responseBody)
            /\ hpc' = "checkError"
            /\ UNCHANGED <<retErr, retUsage, retText>>
       ELSE /\ Fail("unmarshal_response_body_failed")
            /\ UNCHANGED textResponse
    /\ UNCHANGED <<entry, fixedContent, streamVars, responseText, closeCount,
                   statusCode, promptTokens, body, responseBody, client>>

CheckError_Ignored ==
    /\ hpc = "checkError"
    /\ hpc' = "text"
    /\ UNCHANGED <<entry, fixedContent, streamVars, responseText, closeCount,
                   statusCode, promptTokens, body, responseBody, textResponse,
                   client, retErr, retUsage, retText>>

\* Lines 167-172.
CheckError ==
    /\ hpc = "checkError"
    /\ IF textResponse.Error.Type # ""
       THEN Return([Error |-> textResponse.Error, StatusCode |-> statusCode],
                   <<>>, <<>>)
       ELSE hpc' = "text" /\ UNCHANGED <<retErr, retUsage, retText>>
    /\ UNCHANGED <<entry, fixedContent, streamVars, responseText, closeCount,
                   statusCode, promptTokens, body, responseBody, textResponse,
                   client>>

\* Lines 173-175.
ExtractText ==
    /\ hpc = "text"
    /\ responseText' = LastChoiceText(textResponse.Choices)
    /\ hpc' = "inject"
    /\ UNCHANGED <<entry, fixedContent, streamVars, closeCount, retErr, retText,
                   statusCode, promptTokens, body, responseBody, textResponse,
                   retUsage, client>>

\* Lines 177-187.
InjectFixedContent ==
    /\ hpc = "inject"
    /\ textResponse' =
         [textResponse EXCEPT !.Choices = InjectChoices(@, fixedContent)]
    /\ hpc' = "usage"
    /\ UNCHANGED <<entry, fixedContent, streamVars, responseText, closeCount,
                   retErr, retText, statusCode, promptTokens, body,
                   responseBody, retUsage, client>>

\* Lines 190-197.
FillUsage ==
    /\ hpc = "usage"
    /\ textResponse' =
         [textResponse EXCEPT
            !.Usage = FilledUsage(@, promptTokens, responseText, "model")]
    /\ hpc' = "respond"
    /\ UNCHANGED <<entry, fixedContent, streamVars, responseText, closeCount,
                   retErr, retText, statusCode, promptTokens, body,
                   responseBody, retUsage, client>>

\* Lines 200-215: the status code and the headers are set, then the body is
\* written; the write may fail.
Respond ==
    /\ hpc = "respond"
    /\ \E ok \in BOOLEAN :
        IF ok
        THEN /\ client' = [status |-> statusCode,
                           headers |-> FirstValues(Headers),
                           body |-> <<MarshalBody(textResponse)>>]
             /\ Return(NoError, <<textResponse.Usage>>, responseText)
        ELSE /\ client' = [status |-> statusCode,
                           headers |-> FirstValues(Headers),
                           body |-> <<>>]
             /\ Fail("write_modified_response_body_failed")
    /\ UNCHANGED <<entry, fixedContent, streamVars, responseText, closeCount,
                   statusCode, promptTokens, body, responseBody, textResponse>>

------------------------------------------------------------------------------
Next ==
    \/ ScanFrame
    \/ ScanEOF
    \/ FilterFrame
    \/ CheckInject
    \/ ResetFlag
    \/ ParseFrame
    \/ CheckForward
    \/ StepData
    \/ StepStop
    \/ ClientGone
    \/ CloseBody
    \/ ReadBody
    \/ CloseReadBody
    \/ UnmarshalResponse
    \/ CheckError
    \/ ExtractText
    \/ InjectFixedContent
    \/ FillUsage
    \/ Respond

Spec == Init /\ [][Next]_vars


------------------------------------------------------------------------------
\* Vocabulary of the properties.

Chat == entry = "StreamHandler" /\ relayMode = RelayModeChatCompletions

\* The consumer loop ended on the termination signal.
StreamEnded == entry = "StreamHandler" /\ mpc \in {"close", "returned"} /\ ~clientGone

\* StreamHandler returned with the stream delivered and the body closed.
StreamReturned == StreamEnded /\ mpc = "returned" /\ retErr = NoError

\* A frame made by GenerateFixedContentMessage.
IsSynthetic(f) == \E fc \in FixedContents : f = DataPrefix \o << Marshal(FixedContentObject(fc)) >>

\* A terminal marker in any spelling.
IsTerminalMarker(f) == HasPrefix(f, DonePrefix) \/ HasPrefix(f, doneSignal)

\* A frame shorter than 6 characters or with a prefix of another format.
ShortOrForeign(f) ==
    \/ Len(f) < 6
    \/ SubSeq(f, 1, 6) \notin {DataPrefix, DonePrefix}

IsDataFrame(f) == Len(f) >= 6 /\ SubSeq(f, 1, 6) = DataPrefix /\ f # doneSignal

Payload(f) == TrimRight(TrimLeft(SubSeq(f, 7, Len(f))))

\* A data frame whose payload is a JSON document.
Decodable(f) == IsDataFrame(f) /\ Len(Payload(f)) = 1 /\ Payload(f)[1] \in JsonTokens

\* A data frame whose payload json.Unmarshal rejects.
Undecodable(f) == IsDataFrame(f) /\ ~Decodable(f)

PayloadChoices(f) == JsonTable[Payload(f)[1]].choices

\* A decodable frame one of whose choices has finish-reason "stop".
HasStop(f) ==
    /\ Decodable(f)
    /\ \E i \in 1..Len(PayloadChoices(f)) : PayloadChoices(f)[i].finish_reason = "stop"

\* The delta contents of a decodable frame, concatenated.
RECURSIVE DeltaOf(_)
DeltaOf(cs) ==
    IF cs = <<>> THEN <<>> ELSE Head(cs).delta.content \o DeltaOf(Tail(cs))

RECURSIVE DeltaText(_)
DeltaText(fs) ==
    IF fs = <<>> THEN <<>>
    ELSE DeltaOf(PayloadChoices(Head(fs))) \o DeltaText(Tail(fs))

Count(seq, P(_)) == Cardinality({i \in 1..Len(seq) : P(seq[i])})

\* The producer is past the processing of its current frame.
PastFrame ==
    /\ entry = "StreamHandler"
    /\ upstream # <<>>
    /\ pc \notin {"filter", "inject", "sendFixed", "reset", "parse"}

\* The producer has left the loop body for its current frame without
\* handing the frame off.
FrameDropped == pc \in {"scan", "sendDone", "sendStop", "done"}

\* The frames handed off since the current frame was scanned, the final
\* terminal marker of line 127 aside.
HandedSince ==
    LET n == IF pc \in {"sendStop", "done"} THEN Len(handed) - 1 ELSE Len(handed)
    IN  SubSeq(handed, before.handed + 1, n)

------------------------------------------------------------------------------
\* C1: once the consumer loop has ended on the termination signal, the
\* frames written to the client hold exactly one terminal marker: it is
\* `data: [DONE]`, it is the last frame, and no frame before it is a terminal
\* marker in any spelling.
C1_OneTerminalMarker ==
    StreamEnded =>
        /\ written # <<>>
        /\ written[Len(written)] = doneSignal
        /\ \A i \in 1..(Len(written) - 1) : ~IsTerminalMarker(written[i])

\* C2: in chat-completion mode with non-empty fixedContent, when some
\* upstream frame carries a choice with finish-reason "stop", exactly one
\* synthetic frame is written to the client; when the stop frame is the last
\* upstream frame the synthetic frame is the one right before the final
\* `data: [DONE]`.
C2_OneSyntheticAfterStop ==
    (StreamEnded /\ Chat /\ fixedContent # <<>>
        /\ \E i \in 1..Len(upstream) : HasStop(upstream[i]))
    => /\ Count(written, IsSynthetic) = 1
       /\ HasStop(upstream[Len(upstream)]) =>
            /\ Len(written) >= 2
            /\ IsSynthetic(written[Len(written) - 1])

\* C3: with non-empty fixedContent a decodable stop frame is itself written
\* to the client and is followed by the synthetic frame; for the upstream
\* stream [delta "a"; delta "b" with finish-reason stop; `[DONE]`] the client
\* receives frame 1, frame 2, the synthetic frame and `data: [DONE]`, and the
\* returned text is "ab".
C3_StopFrameForwarded ==
    (StreamReturned /\ Chat /\ fixedContent # <<>>)
    => /\ \A i \in 1..Len(upstream) :
            HasStop(upstream[i]) =>
                \E j \in 1..(Len(written) - 1) :
                    /\ written[j] = upstream[i]
                    /\ IsSynthetic(written[j + 1])
       /\ upstream = << DataPrefix \o <<"Ja">>, DataPrefix \o <<"Jb">>, DonePrefix >>
            => /\ written = << DataPrefix \o <<"Ja">>,
                               DataPrefix \o <<"Jb">>,
                               GenerateFixedContentMessage(fixedContent),
                               doneSignal >>
               /\ retText = <<"a", "b">>

\* C4: with empty fixedContent the injection flag is cleared, without any
\* emission, when the frame after a stop frame passes the injection check,
\* and every decodable data frame that follows a stop frame is written to
\* the client unmodified.
C4_FlagClearedWhenEmpty ==
    (entry = "StreamHandler" /\ fixedContent = <<>>
        /\ relayMode # RelayModeEmbeddings)
    => /\ (pc = "parse" => ~needInjectFixedMessageBeforeNextSend)
       /\ StreamEnded =>
            \A j \in 1..Len(upstream) :
                (Decodable(upstream[j]) /\ \E i \in 1..(j - 1) : HasStop(upstream[i]))
                => \E k \in 1..Len(written) : written[k] = TrimSuffixCR(upstream[j])

\* C5: with empty fixedContent no synthetic frame is ever handed to the
\* consumer or written to the client, and the producer never stands at the
\* handoff of one.
C5_NoSyntheticWhenEmpty ==
    (entry = "StreamHandler" /\ fixedContent = <<>>)
    => /\ \A i \in 1..Len(handed) : ~IsSynthetic(handed[i])
       /\ \A i \in 1..Len(written) : ~IsSynthetic(written[i])
       /\ pc \notin {"sendFixed", "reset"}

\* C5 witness: a stop is pending with empty fixedContent and a later accepted
\* frame has passed the injection check.
C5_Witness ==
    /\ entry = "StreamHandler"
    /\ fixedContent = <<>>
    /\ needInjectFixedMessageBeforeNextSend
    /\ before.flag
    /\ pc = "parse"

\* The decodable frames of chat-completion mode without a stop choice.
IsPlainDelta(f) == Decodable(f) /\ ~HasStop(f)

RECURSIVE StripCR(_)
StripCR(fs) ==
    IF fs = <<>> THEN <<>> ELSE << TrimSuffixCR(Head(fs)) >> \o StripCR(Tail(fs))

\* A chat-completion stream of N >= 1 plain delta frames was relayed and
\* StreamHandler returned without error.
PlainStreamReturned ==
    /\ StreamReturned
    /\ Chat
    /\ upstream # <<>>
    /\ \A i \in 1..Len(upstream) : IsPlainDelta(upstream[i])

\* C6 as stated: for a chat-completion stream of N decodable delta frames
\* without finish-reason "stop" the client receives exactly those N frames in
\* upstream order, then one terminal marker, and the returned text is the
\* concatenation of the N delta contents.
C6_PlainStreamVerbatim ==
    PlainStreamReturned
    => /\ written = upstream \o <<doneSignal>>
       /\ retText = DeltaText(upstream)

\* C6 amended: the client receives the N frames in upstream order, each with
\* one trailing carriage return stripped, then one terminal marker, and the
\* returned text is the concatenation of the N delta contents.
C6_PlainStreamRelayed ==
    PlainStreamReturned
    => /\ written = StripCR(upstream) \o <<doneSignal>>
       /\ retText = DeltaText(upstream)

\* C6 witness: a returned plain stream of several frames, one of them ending
\* in a carriage return, with text accumulated.
C6_Witness ==
    /\ PlainStreamReturned
    /\ Len(upstream) >= 2
    /\ \E i \in 1..Len(upstream) : StripCR(<<upstream[i]>>) # <<upstream[i]>>
    /\ Len(retText) >= 2

\* The producer is past a frame whose payload failed to decode.
PastUndecodable ==
    /\ PastFrame
    /\ relayMode # RelayModeEmbeddings
    /\ Undecodable(data)

C8_ShortOrForeignDropped ==
    (PastFrame /\ ShortOrForeign(data))
    => /\ FrameDropped
       /\ HandedSince = <<>>
       /\ responseText = before.text
       /\ needInjectFixedMessageBeforeNextSend = before.flag

\* C8 witness: a foreign frame of 6 characters arrived while an injection
\* was pending with non-empty fixedContent, and the producer is back at the
\* scanner.
C8_Witness ==
    /\ PastFrame
    /\ Len(data) = 6
    /\ ShortOrForeign(data)
    /\ before.flag
    /\ fixedContent # <<>>
    /\ pc = "scan"

\* C9: whenever the consumer loop has stopped, the producer is not blocked
\* on a handoff to dataChan or stopChan that nobody will receive.
C9_ProducerNotLeftBlocked ==
    (entry = "StreamHandler" /\ mpc \in {"close", "returned"})
    => pc \notin (Sending \cup {"sendStop"})

\* C10: when StreamHandler or Handler has returned, by whatever path, the
\* upstream response body has been closed exactly once.
C10_BodyClosedOnce ==
    (mpc = "returned" \/ hpc = "returned") => closeCount = 1

------------------------------------------------------------------------------
\* Vocabulary of the properties of Handler.

\* The JSON document the upstream body holds.
UpstreamDoc == BodyTable[body[1]]

\* Handler decoded an upstream body that reports no error.
DecodedWithoutError ==
    /\ entry = "Handler"
    /\ body[1] \in BodyTokens
    /\ UpstreamDoc.error.type = ""
    /\ hpc = "returned"
    /\ closeCount = 1
    /\ retErr.Error.Code # "close_response_body_failed"

\* Handler returned without error, the body written to the client.
HandlerSucceeded == DecodedWithoutError /\ retErr = NoError

\* The text of the i-th choice of a JSON body.
ChoiceText(doc, i) == StringContent([Content |-> doc.choices[i].message.content])

\* The original text of the last upstream choice, "" without choices.
OriginalLastText ==
    IF UpstreamDoc.choices = <<>>
    THEN <<>>
    ELSE ChoiceText(UpstreamDoc, Len(UpstreamDoc.choices))

\* C11: when the upstream body has usage.totalTokens = 0 and no error type,
\* the returned usage and the usage of the body written to the client have
\* promptTokens = the supplied count, completionTokens = CountTokenText of
\* the original content of the last choice, totalTokens = their sum; the
\* values are functions of the upstream body and the prompt-token count
\* alone, hence the same for every fixedContent.
C11_UsageRecomputed ==
    (HandlerSucceeded /\ UpstreamDoc.usage.total_tokens = 0)
    => LET completionTokens == CountTokenText(OriginalLastText, "model")
       IN  /\ retUsage = << Usage(promptTokens, completionTokens,
                                  promptTokens + completionTokens) >>
           /\ client.body[1].usage = JsonUsage(promptTokens, completionTokens,
                                               promptTokens + completionTokens)

\* C11 witness: usage was recomputed for a body of several choices with
\* non-empty fixedContent, a non-zero prompt-token count and a non-empty
\* last choice.
C11_Witness ==
    /\ HandlerSucceeded
    /\ UpstreamDoc.usage.total_tokens = 0
    /\ fixedContent # <<>>
    /\ promptTokens > 0
    /\ Len(UpstreamDoc.choices) >= 2
    /\ retUsage[1].CompletionTokens > 0

\* Handler decoded an upstream body that reports an error type and has
\* passed the check of it.
UpstreamErrorSeen ==
    /\ entry = "Handler"
    /\ body[1] \in BodyTokens
    /\ UpstreamDoc.error.type # ""
    /\ hpc \notin {"read", "close", "unmarshal", "checkError"}
    /\ closeCount = 1
    /\ retErr.Error.Code # "close_response_body_failed"

\* C12: when the decoded upstream body has a non-empty error type, Handler
\* returns that error with the upstream status code, nil usage and empty
\* text, and does nothing else: no choice is modified, no usage computed,
\* and no status code, header or body is written to the client.
C12_UpstreamErrorPropagated ==
    UpstreamErrorSeen
    => /\ hpc = "returned"
       /\ retErr.Error.Type = UpstreamDoc.error.type
       /\ retErr.StatusCode = statusCode
       /\ retUsage = <<>>
       /\ retText = <<>>
       /\ MarshalBody(textResponse).choices = UpstreamDoc.choices
       /\ MarshalBody(textResponse).usage = UpstreamDoc.usage
       /\ client = NoClient

\* C12 witness: an upstream error with status 429 was returned while the
\* fixed content is non-empty.
C12_Witness ==
    /\ UpstreamErrorSeen
    /\ hpc = "returned"
    /\ statusCode = 429
    /\ fixedContent # <<>>

\* C13: with empty fixedContent and an upstream body whose
\* usage.totalTokens is non-zero (and no error type), the choices and the
\* usage of the body written to the client equal the upstream ones.
C13_RoundTrip ==
    (HandlerSucceeded /\ fixedContent = <<>> /\ UpstreamDoc.usage.total_tokens # 0)
    => /\ client.body[1].choices = UpstreamDoc.choices
       /\ client.body[1].usage = UpstreamDoc.usage
       /\ retUsage = << Usage(UpstreamDoc.usage.prompt_tokens,
                              UpstreamDoc.usage.completion_tokens,
                              UpstreamDoc.usage.total_tokens) >>

\* C13 witness: a body with non-zero usage and two choices was relayed with
\* empty fixedContent and a prompt-token count that differs from upstream's.
C13_Witness ==
    /\ HandlerSucceeded
    /\ fixedContent = <<>>
    /\ UpstreamDoc.usage.total_tokens # 0
    /\ Len(client.body[1].choices) = 2
    /\ promptTokens # UpstreamDoc.usage.prompt_tokens

------------------------------------------------------------------------------
\* Vocabulary of the properties of the stream's text.

RECURSIVE TextOf(_)
TextOf(cs) ==
    IF cs = <<>> THEN <<>> ELSE Head(cs).text \o TextOf(Tail(cs))

\* The text a frame adds to the accumulator in mode m.
FrameText(f, m) ==
    IF ~Decodable(f) THEN <<>>
    ELSE IF m = RelayModeChatCompletions THEN DeltaOf(PayloadChoices(f))
    ELSE IF m = RelayModeCompletions THEN TextOf(PayloadChoices(f))
    ELSE <<>>

RECURSIVE StreamText(_, _)
StreamText(fs, m) ==
    IF fs = <<>> THEN <<>> ELSE FrameText(Head(fs), m) \o StreamText(Tail(fs), m)

CloseFailed ==
    retErr = [Error |-> [Type |-> "one_api_error",
                         Code |-> "close_response_body_failed"],
              StatusCode |-> 500]

\* C14: StreamHandler returns either the internal error
\* close_response_body_failed (HTTP 500) with empty text, or no error and
\* the accumulated text; when the loop ended on the termination signal that
\* is the text of all decoded upstream frames, which holds no character of
\* fixedContent or of a synthetic frame.
C14_ReturnValue ==
    (entry = "StreamHandler" /\ mpc = "returned")
    => \/ CloseFailed /\ retText = <<>>
       \/ /\ retErr = NoError
          /\ ~clientGone =>
                /\ retText = StreamText(upstream, relayMode)
                /\ \A i \in 1..Len(retText) : retText[i] \notin {"A", "\n"}

\* C14 witness: the close failed after a synthetic frame and the terminal
\* marker were written and text had been accumulated.
C14_Witness ==
    /\ entry = "StreamHandler"
    /\ mpc = "returned"
    /\ CloseFailed
    /\ ~clientGone
    /\ responseText # <<>>
    /\ \E i \in 1..Len(written) : IsSynthetic(written[i])
    /\ written[Len(written)] = doneSignal

------------------------------------------------------------------------------
\* What lines 134-138 make of a frame, stated on its own.
ClientForm(f) ==
    LET cut == IF Len(f) >= 12 /\ SubSeq(f, 1, 12) = doneSignal
               THEN SubSeq(f, 1, 12)
               ELSE f
    IN  IF cut # <<>> /\ cut[Len(cut)] = "\r"
        THEN SubSeq(cut, 1, Len(cut) - 1)
        ELSE cut

\* C15: the producer signals termination only after the final
\* `data: [DONE]` was handed off; when the consumer loop has ended on the
\* termination signal the producer is done and every frame handed off,
\* the final terminal marker included, has been written to the client; and
\* while the client stays connected a producer waiting at a handoff always
\* has the consumer loop to receive it, which in turn never waits for a
\* producer that is done.
C15_TerminationHandshake ==
    entry = "StreamHandler"
    => /\ pc \in {"sendStop", "done"} =>
            /\ handed # <<>>
            /\ handed[Len(handed)] = doneSignal
       /\ StreamEnded =>
            /\ pc = "done"
            /\ Len(written) = Len(handed)
            /\ \A i \in 1..Len(handed) : written[i] = ClientForm(handed[i])
            /\ written[Len(written)] = doneSignal
       /\ ~clientGone =>
            /\ pc \in {"sendFixed", "sendData", "sendDone", "sendStop"}
                    => mpc = "stream"
            /\ mpc = "stream" => pc # "done"

\* C15 witness: the loop ended on the termination signal after a forwarded
\* frame, a synthetic frame and the final terminal marker were handed off.
C15_Witness ==
    /\ StreamEnded
    /\ Len(handed) >= 3
    /\ \E i \in 1..Len(handed) : IsSynthetic(handed[i])
    /\ \E i \in 1..Len(handed) : Decodable(handed[i]) /\ ~IsSynthetic(handed[i])

------------------------------------------------------------------------------
\* The upstream frames the producer has parsed: all those scanned, the
\* current one aside while it is still ahead of or inside the parse.
ParsedFrames ==
    IF pc \in {"filter", "inject", "sendFixed", "reset", "parse"}
    THEN SubSeq(upstream, 1, Len(upstream) - 1)
    ELSE upstream

\* A frame the producer decodes, in one of the two parsing modes, with a
\* choice that has finish-reason "stop".
DecodedWithStop(f) == relayMode # RelayModeEmbeddings /\ HasStop(f)

\* The flag is raised only by the parse of a decoded frame with a stop
\* choice.
FlagRaisedByStop ==
    (~needInjectFixedMessageBeforeNextSend /\ needInjectFixedMessageBeforeNextSend')
    => pc = "parse" /\ DecodedWithStop(data)

\* The flag is cleared only by the step that follows the handoff of a
\* synthetic frame.
FlagClearedAfterInjection ==
    (needInjectFixedMessageBeforeNextSend /\ ~needInjectFixedMessageBeforeNextSend')
    => /\ pc = "reset"
       /\ Len(handed) = before.handed + 1
       /\ IsSynthetic(handed[Len(handed)])

\* C16: the injection flag goes from false to true only while a decoded
\* choice with finish-reason "stop" is processed, from true to false only
\* in the step directly after a synthetic frame was handed off, and the
\* synthetic frames handed off never outnumber the upstream frames decoded
\* with a stop choice.
C16_InjectionFlag ==
    /\ [][FlagRaisedByStop /\ FlagClearedAfterInjection]_vars
    /\ [](entry = "StreamHandler"
            => Count(handed, IsSynthetic) <= Count(ParsedFrames, DecodedWithStop))

\* C16 witness: a frame with two stop choices raised the flag, a foreign
\* frame passed while it was pending, and the next accepted frame had one
\* synthetic frame handed off ahead of it and the flag cleared.
C16_Witness ==
    /\ entry = "StreamHandler"
    /\ Len(upstream) = 3
    /\ HasStop(upstream[1])
    /\ Len(PayloadChoices(upstream[1])) = 2
    /\ ShortOrForeign(upstream[2])
    /\ pc = "parse"
    /\ before.flag
    /\ ~needInjectFixedMessageBeforeNextSend
    /\ Count(handed, IsSynthetic) = 1

------------------------------------------------------------------------------
\* C17: when StreamHandler has returned, the producer has left its loop, so
\* that no append to the accumulator can follow the read of line 149, and a
\* text returned without error is the text of all decoded frames of the
\* upstream stream.
C17_TextReadAfterLastWrite ==
    (entry = "StreamHandler" /\ mpc = "returned")
    => /\ pc \in {"sendDone", "sendStop", "done"}
       /\ retErr = NoError => retText = StreamText(upstream, relayMode)

------------------------------------------------------------------------------
\* Mode equivalence.  A frame is reduced to what both wire shapes share: its
\* kind, its text fragments and whether a choice finished with "stop".  The
\* effect of a stream is then stated once, on the reduced frames, without
\* reference to the mode; two streams that carry the same fragments and
\* finish reasons, one per mode, reduce to the same sequence.

\* The frame has the wire shape of mode m (delta content in chat-completion
\* mode, text in legacy-completion mode), or is no decodable frame at all.
Native(f, m) ==
    Decodable(f) =>
        \A i \in 1..Len(PayloadChoices(f)) :
            IF m = RelayModeChatCompletions
            THEN PayloadChoices(f)[i].text = <<>>
            ELSE PayloadChoices(f)[i].delta.content = <<>>

RECURSIVE Fragments(_)
Fragments(cs) ==
    IF cs = <<>> THEN <<>>
    ELSE Head(cs).delta.content \o Head(cs).text \o Fragments(Tail(cs))

Reduced(f) ==
    IF IsSynthetic(f) THEN [kind |-> "synthetic", text |-> <<>>, stop |-> FALSE]
    ELSE IF ShortOrForeign(f) THEN [kind |-> "ignored", text |-> <<>>, stop |-> FALSE]
    ELSE IF f = doneSignal THEN [kind |-> "done", text |-> <<>>, stop |-> FALSE]
    ELSE IF Undecodable(f) THEN [kind |-> "undecodable", text |-> <<>>, stop |-> FALSE]
    ELSE IF Decodable(f)
         THEN [kind |-> "delta", text |-> Fragments(PayloadChoices(f)), stop |-> HasStop(f)]
         ELSE [kind |-> "marker", text |-> f, stop |-> FALSE]

ReducedSeq(fs) == [i \in 1..Len(fs) |-> Reduced(fs[i])]

\* The effect of one reduced frame on accumulator, flag and handoffs.
ReducedStep(st, a, fc) ==
    IF a.kind = "ignored" THEN st
    ELSE LET inject == st.flag /\ fc # <<>>
             out == IF inject
                    THEN Append(st.out, [kind |-> "synthetic", text |-> <<>>, stop |-> FALSE])
                    ELSE st.out
             flag == (st.flag /\ ~inject) \/ a.stop
         IN  IF a.kind \in {"done", "undecodable"}
             THEN [text |-> st.text, flag |-> st.flag /\ ~inject, out |-> out]
             ELSE [text |-> st.text \o (IF a.kind = "delta" THEN a.text ELSE <<>>),
                   flag |-> flag,
                   out |-> IF flag THEN out ELSE Append(out, a)]

RECURSIVE ReducedRun(_, _)
ReducedRun(as, fc) ==
    IF as = <<>>
    THEN [text |-> <<>>, flag |-> FALSE, out |-> <<>>]
    ELSE ReducedStep(ReducedRun(SubSeq(as, 1, Len(as) - 1), fc), as[Len(as)], fc)

\* The producer stands between two frames, every upstream frame in the wire
\* shape of the mode.
AtFrameBoundary ==
    /\ entry = "StreamHandler"
    /\ relayMode \in {RelayModeChatCompletions, RelayModeCompletions}
    /\ pc \in {"scan", "sendDone", "sendStop", "done"}
    /\ \A i \in 1..Len(upstream) : Native(upstream[i], relayMode)

\* The frames handed off, the final terminal marker of line 127 aside.
HandedFromStream ==
    IF pc \in {"sendStop", "done"} THEN SubSeq(handed, 1, Len(handed) - 1) ELSE handed

\* C18: in chat-completion mode and in legacy-completion mode alike, after
\* every frame of a stream in the mode's wire shape the accumulator, the
\* injection flag and the sequence of forwarded and synthetic frames handed
\* off are one and the same function of the frames' text fragments and
\* stop/non-stop finish reasons.
C18_ModeEquivalence ==
    AtFrameBoundary
    => LET ref == ReducedRun(ReducedSeq(upstream), fixedContent)
       IN  /\ responseText = ref.text
           /\ needInjectFixedMessageBeforeNextSend = ref.flag
           /\ ReducedSeq(HandedFromStream) = ref.out

\* C18 witness: in legacy-completion mode a stop frame with text was held
\* back and a later text frame forwarded behind a synthetic frame.
C18_Witness ==
    /\ AtFrameBoundary
    /\ relayMode = RelayModeCompletions
    /\ Len(upstream) >= 2
    /\ HasStop(upstream[1])
    /\ responseText = <<"b", "a">>
    /\ Len(handed) = 2
    /\ IsSynthetic(handed[1])
    /\ pc = "scan"

------------------------------------------------------------------------------
\* Order preservation.

\* ws is embedded in us: the frames of ws are frames of us, taken in the
\* order of us and each at most once, each equal to its frame of us or to
\* that frame without its trailing carriage return.
RECURSIVE Embeds(_, _)
Embeds(ws, us) ==
    IF ws = <<>> THEN TRUE
    ELSE IF us = <<>> THEN FALSE
    ELSE IF Head(ws) \in {Head(us), TrimSuffixCR(Head(us))}
         THEN Embeds(Tail(ws), Tail(us))
         ELSE Embeds(ws, Tail(us))

RECURSIVE WithoutSynthetic(_)
WithoutSynthetic(fs) ==
    IF fs = <<>> THEN <<>>
    ELSE (IF IsSynthetic(Head(fs)) THEN <<>> ELSE <<Head(fs)>>)
         \o WithoutSynthetic(Tail(fs))

\* The frames written to the client, the synthetic frames and the final
\* terminal marker of the session removed.
WrittenFromUpstream ==
    WithoutSynthetic(IF pc \in {"sendStop", "done"}
                     THEN SubSeq(written, 1, Len(written) - 1)
                     ELSE written)

====
